---- MODULE Spec2Model ----
(***************************************************************************)
(* Model of src/app.py: the Dash "Ping Pong Winning Probability App".      *)
(*                                                                         *)
(* The program is two callbacks registered on a threaded server:           *)
(*   update_graph   (lines 84-162)  : four counts + confidence -> figure   *)
(*   update_priors  (lines 166-195) : four counts -> new data column       *)
(* and a page layout (lines 26-80) whose component values are the only     *)
(* state; the server keeps none.                                           *)
(*                                                                         *)
(* Numbers.  Counts are Python ints (unbounded), modelled as TLA+ integers.*)
(* Probabilities (the confidence level and the quantile levels handed to   *)
(* ppf) are modelled in fixed point, in units of 1/ONE.  scipy's beta      *)
(* distribution is a library: a frozen distribution is the pair of shape   *)
(* parameters it was built with, and a pdf / ppf value is the application  *)
(* it came from together with whether the library yields nan for it.       *)
(***************************************************************************)
EXTENDS Integers, FiniteSets, Sequences, TLC

\* ---------------------------------------------------------------- bounds
\* counts typed into a box or sent in a request range over -MaxNeg..MaxCount
MaxCount == 5
MaxNeg == 1
\* server threads handling callbacks concurrently
NThreads == 2
\* the browser session: largest observed count typed, largest prior kept
MaxObserved == 2
MaxPrior == 7

\* ------------------------------------------------------- program constants
\* the float 1 of "1 - conf_interval": probabilities are in units of 1/ONE
ONE == 1000
\* conf_interval_values = [0.99, 0.95, 0.90, 0.80]
conf_interval_values == {990, 950, 900, 800}
\* dcc.Input(id='prior_wins', value=5), prior_losses likewise
DefaultPrior == 5
\* dcc.Input(id='observed_wins', value=0), observed_losses likewise
DefaultObserved == 0
\* dcc.Dropdown(id='conf_interval_selector', value=0.95)
DefaultConf == 950

\* ------------------------------------------------------------ input sets
CountValues == (0 - MaxNeg)..MaxCount
\* confidence levels a request can carry: the callback takes whatever value
\* the request holds, offered by the dropdown or not
ConfValues == conf_interval_values \cup {500, 1200}
Threads == 1..NThreads
\* what the user types in the browser runs, and the priors kept there
BrowserValues == {-1, 0, 1}
BrowserPriors == BrowserValues \cup {DefaultPrior}
\* the priors kept in the session runs
SessionPriors == DefaultPrior..MaxPrior
\* the requests of the threaded runs
ThreadedCounts ==
    {<<5, 5, 0, 0>>, <<5, 5, 3, 2>>, <<1, 2, 1, 0>>}
ThreadedConfs == {950, 800}

VARIABLES
    layout,     \* the page: the value of every component the callbacks use
    request,    \* request[t]: the callback request thread t is handling
    pc,         \* pc[t]: the line thread t is about to run
    locals,     \* locals[f]: the local variables of call frame f
    response,   \* response[t]: what thread t's callback returned
    folded      \* history: the observed counts update_priors has folded in

vars == <<layout, request, pc, locals, response, folded>>

\* ------------------------------------------------------------ scipy.stats
\* stats.beta(a, b): a frozen distribution; scipy builds it for any a, b
stats_beta(a, b) == [a |-> a, b |-> b]

\* scipy's argument check: the shape parameters must be positive
beta_argcheck(dist) == dist.a > 0 /\ dist.b > 0

\* posterior_beta.ppf(q): nan when the shape parameters are not positive or
\* q is outside [0, 1]; otherwise the point with mass q below it
beta_ppf(dist, q) ==
    [dist |-> dist, q |-> q,
     nan |-> ~(beta_argcheck(dist) /\ q >= 0 /\ q <= ONE)]

\* [posterior_beta.pdf(i) for i in np.linspace(0, 1, 200)]
beta_pdf_curve(dist) ==
    [dist |-> dist, from |-> 0, to |-> ONE, num |-> 200,
     nan |-> ~beta_argcheck(dist)]

\* max(y_plot)
curve_max(y_plot) == [max_of |-> y_plot.dist, nan |-> y_plot.nan]

\* --------------------------------------------------------- call frames
\* a callback's frame: its parameters and its local variables.  A local not
\* yet assigned holds a placeholder the code never reads.  n_clicks is a
\* parameter of both callbacks that neither reads; it is left out.
NewFrame(pw, pl, ow, ol, conf) ==
    [prior_wins |-> pw, prior_losses |-> pl,
     observed_wins |-> ow, observed_losses |-> ol,
     conf_interval |-> conf,
     posterior_beta |-> stats_beta(0, 0),
     y_plot |-> beta_pdf_curve(stats_beta(0, 0)),
     conf_interval_val |-> 0,
     lb |-> beta_ppf(stats_beta(0, 0), 0),
     ub |-> beta_ppf(stats_beta(0, 0), 0),
     line_height |-> curve_max(beta_pdf_curve(stats_beta(0, 0))),
     new_prior_wins |-> 0, new_prior_losses |-> 0]

\* ------------------------------------------------ update_graph, by line
\* posterior_beta = stats.beta(prior_wins + observed_wins,
\*                             prior_losses + observed_losses)
line94(f) ==
    [f EXCEPT !.posterior_beta =
        stats_beta(f.prior_wins + f.observed_wins,
                   f.prior_losses + f.observed_losses)]

\* x_plot = np.linspace(0, 1, 200); y_plot = [posterior_beta.pdf(i) ...]
line98(f) == [f EXCEPT !.y_plot = beta_pdf_curve(f.posterior_beta)]

\* conf_interval_val = 1 - conf_interval
line101(f) == [f EXCEPT !.conf_interval_val = ONE - f.conf_interval]

\* a slip in line 102: the tail is not halved
line102_whole_tail(f) ==
    [f EXCEPT !.lb = beta_ppf(f.posterior_beta, 0 + f.conf_interval_val)]

\* lb = posterior_beta.ppf(0 + conf_interval_val / 2)
\* (every conf_interval of the model leaves an even conf_interval_val, so
\* the fixed-point halving is exact, as the float halving is)
line102(f) ==
    [f EXCEPT !.lb = beta_ppf(f.posterior_beta, 0 + f.conf_interval_val \div 2)]

\* ub = posterior_beta.ppf(1 - conf_interval_val / 2)
line103(f) ==
    [f EXCEPT !.ub = beta_ppf(f.posterior_beta, ONE - f.conf_interval_val \div 2)]

\* line_height = max(y_plot)
line117(f) == [f EXCEPT !.line_height = curve_max(f.y_plot)]

\* return {'data': [posterior_trace, lb_trace, ub_trace], 'layout': layout}
\* The callback has no raise statement and scipy answers bad arguments with
\* nan, so every call returns a figure: raised is "none".
line162(f) ==
    [callback |-> "update_graph", raised |-> "none",
     posterior_trace |-> f.y_plot,
     lb_trace |-> [x |-> f.lb, height |-> f.line_height],
     ub_trace |-> [x |-> f.ub, height |-> f.line_height]]

\* ----------------------------------------------- update_priors, by line
\* a slip in line 175: the observed losses are added to the prior wins
line175_adds_losses(f) ==
    [f EXCEPT !.new_prior_wins = f.prior_wins + f.observed_losses]

\* new_prior_wins = prior_wins + observed_wins
line175(f) == [f EXCEPT !.new_prior_wins = f.prior_wins + f.observed_wins]

\* a slip in line 176: the prior wins stand where the prior losses should
line176_from_wins(f) ==
    [f EXCEPT !.new_prior_losses = f.prior_wins + f.observed_losses]

\* new_prior_losses = prior_losses + observed_losses
line176(f) == [f EXCEPT !.new_prior_losses = f.prior_losses + f.observed_losses]

\* a slip in lines 192-194: the observed inputs keep their values
line179_keeps_observed(f) ==
    [callback |-> "update_priors", raised |-> "none",
     heading |-> "Data Column",
     prior_wins |-> f.new_prior_wins, prior_losses |-> f.new_prior_losses,
     observed_wins |-> f.observed_wins, observed_losses |-> f.observed_losses]

\* return [html.H3("Data Column"), <priors: the new priors>, <observed: 0, 0>]
line179(f) ==
    [callback |-> "update_priors", raised |-> "none",
     heading |-> "Data Column",
     prior_wins |-> f.new_prior_wins, prior_losses |-> f.new_prior_losses,
     observed_wins |-> 0, observed_losses |-> 0]

\* ------------------------------------------- the callbacks, run alone
update_graph(prior_wins, prior_losses, observed_wins, observed_losses, conf_interval) ==
    line162(line117(line103(line102(line101(line98(line94(
        NewFrame(prior_wins, prior_losses, observed_wins, observed_losses,
                 conf_interval))))))))

update_priors(prior_wins, prior_losses, observed_wins, observed_losses) ==
    line179(line176(line175(
        NewFrame(prior_wins, prior_losses, observed_wins, observed_losses, 0))))

\* the result of a request handled with nothing else running
RunAlone(req) ==
    IF req.callback = "update_graph"
    THEN update_graph(req.prior_wins, req.prior_losses, req.observed_wins,
                      req.observed_losses, req.conf_interval)
    ELSE update_priors(req.prior_wins, req.prior_losses, req.observed_wins,
                       req.observed_losses)

\* ------------------------------------------------------------- the page
\* app.layout: the components the callbacks read (State) and write (Output)
InitialLayout ==
    [heading |-> "Enter Win/Loss Data",
     prior_wins |-> DefaultPrior, prior_losses |-> DefaultPrior,
     observed_wins |-> DefaultObserved, observed_losses |-> DefaultObserved,
     conf_interval_selector |-> DefaultConf,
     pdf_graph |-> [callback |-> "none", raised |-> "none"]]

InputBoxes == {"prior_wins", "prior_losses", "observed_wins", "observed_losses"}
ObservedBoxes == {"observed_wins", "observed_losses"}

\* a slip in the Output of update_graph: the observed inputs are cleared too
update_graph_output_clears(page, figure) ==
    [page EXCEPT !.pdf_graph = figure, !.observed_wins = 0, !.observed_losses = 0]

\* Output(component_id='pdf_graph', component_property='figure')
update_graph_output(page, figure) == [page EXCEPT !.pdf_graph = figure]

\* a slip in the Output of update_priors: the prior inputs are not rebound
update_priors_output_stale(page, children) ==
    [page EXCEPT !.heading = children.heading,
                 !.observed_wins = children.observed_wins,
                 !.observed_losses = children.observed_losses]

\* Output(component_id='data_column', component_property='children'): the
\* column is replaced by the returned one, with its four inputs
update_priors_output(page, children) ==
    [page EXCEPT !.heading = children.heading,
                 !.prior_wins = children.prior_wins,
                 !.prior_losses = children.prior_losses,
                 !.observed_wins = children.observed_wins,
                 !.observed_losses = children.observed_losses]

\* ---------------------------------------------------- the server threads
\* a slip: the callbacks' variables made module-level, one frame for all
SharedFrame(t) == 1

\* the frame of the call thread t is running: a new one for every call
Frame(t) == t

NoRequest ==
    [callback |-> "none", prior_wins |-> 0, prior_losses |-> 0,
     observed_wins |-> 0, observed_losses |-> 0, conf_interval |-> 0]
NoResponse == [callback |-> "none", raised |-> "none"]
BlankFrame == NewFrame(0, 0, 0, 0, 0)

FirstLine(callback) == IF callback = "update_graph" THEN "l94" ELSE "l175"

NextLine(line) ==
    CASE line = "l94" -> "l98"
      [] line = "l98" -> "l101"
      [] line = "l101" -> "l102"
      [] line = "l102" -> "l103"
      [] line = "l103" -> "l117"
      [] line = "l117" -> "l162"
      [] line = "l175" -> "l176"
      [] line = "l176" -> "l179"

RunLine(line, f) ==
    CASE line = "l94" -> line94(f)
      [] line = "l98" -> line98(f)
      [] line = "l101" -> line101(f)
      [] line = "l102" -> line102(f)
      [] line = "l103" -> line103(f)
      [] line = "l117" -> line117(f)
      [] line = "l175" -> line175(f)
      [] line = "l176" -> line176(f)

ReturnValue(line, f) == IF line = "l162" THEN line162(f) ELSE line179(f)

\* a request reaches thread t: the callback is called with the request's values
Call(t, callback, pw, pl, ow, ol, conf) ==
    /\ pc[t] = "idle"
    /\ request' = [request EXCEPT ![t] =
           [callback |-> callback, prior_wins |-> pw, prior_losses |-> pl,
            observed_wins |-> ow, observed_losses |-> ol, conf_interval |-> conf]]
    /\ locals' = [locals EXCEPT ![Frame(t)] = NewFrame(pw, pl, ow, ol, conf)]
    /\ pc' = [pc EXCEPT ![t] = FirstLine(callback)]
    /\ UNCHANGED <<layout, response, folded>>

\* thread t runs one assignment of its callback
Step(t) ==
    /\ pc[t] \in {"l94", "l98", "l101", "l102", "l103", "l117", "l175", "l176"}
    /\ locals' = [locals EXCEPT ![Frame(t)] = RunLine(pc[t], locals[Frame(t)])]
    /\ pc' = [pc EXCEPT ![t] = NextLine(pc[t])]
    /\ UNCHANGED <<layout, request, response, folded>>

\* thread t runs its callback's return statement
Return(t) ==
    /\ pc[t] \in {"l162", "l179"}
    /\ response' = [response EXCEPT ![t] = ReturnValue(pc[t], locals[Frame(t)])]
    /\ pc' = [pc EXCEPT ![t] = "done"]
    /\ UNCHANGED <<layout, request, locals, folded>>

\* the response is sent and the call's frame is gone; the thread is free again
Respond(t) ==
    /\ pc[t] = "done"
    /\ pc' = [pc EXCEPT ![t] = "idle"]
    /\ request' = [request EXCEPT ![t] = NoRequest]
    /\ response' = [response EXCEPT ![t] = NoResponse]
    /\ locals' = [locals EXCEPT ![Frame(t)] = BlankFrame]
    /\ UNCHANGED <<layout, folded>>

\* ------------------------------------------------------------ the browser
\* the user types v into an input box (type='number': any number goes)
TypeInput(box, v) ==
    /\ layout' = [layout EXCEPT ![box] = v]
    /\ UNCHANGED <<request, pc, locals, response>>

\* the user picks a confidence level in the dropdown
SelectConf(c) ==
    /\ layout' = [layout EXCEPT !.conf_interval_selector = c]
    /\ UNCHANGED <<request, pc, locals, response, folded>>

\* "Run Analysis": update_graph on the page's State values, its result bound
\* to its Output
RunAnalysis ==
    /\ layout' = update_graph_output(layout,
           update_graph(layout.prior_wins, layout.prior_losses,
                        layout.observed_wins, layout.observed_losses,
                        layout.conf_interval_selector))
    /\ UNCHANGED <<request, pc, locals, response, folded>>

\* "Update Priors": update_priors on the page's State values, its result
\* bound to its Output (the run keeps the new priors within kept)
UpdatePriors(kept) ==
    /\ layout.prior_wins + layout.observed_wins \in kept
    /\ layout.prior_losses + layout.observed_losses \in kept
    /\ layout' = update_priors_output(layout,
           update_priors(layout.prior_wins, layout.prior_losses,
                         layout.observed_wins, layout.observed_losses))
    /\ UNCHANGED <<request, pc, locals, response>>

\* ------------------------------------------------------- specifications
Init ==
    /\ layout = InitialLayout
    /\ request = [t \in Threads |-> NoRequest]
    /\ pc = [t \in Threads |-> "idle"]
    /\ locals = [t \in Threads |-> BlankFrame]
    /\ response = [t \in Threads |-> NoResponse]
    /\ folded = [wins |-> 0, losses |-> 0]

\* Spec: one request at a time, with any counts and any confidence level
CallGraph ==
    /\ pc[1] = "idle"
    /\ \E pw, pl, ow, ol \in CountValues : \E conf \in ConfValues :
           Call(1, "update_graph", pw, pl, ow, ol, conf)

CallPriors ==
    /\ pc[1] = "idle"
    /\ \E pw, pl, ow, ol \in CountValues :
           Call(1, "update_priors", pw, pl, ow, ol, 0)

Next ==
    \/ CallGraph
    \/ CallPriors
    \/ Step(1)
    \/ Return(1)
    \/ Respond(1)

Spec == Init /\ [][Next]_vars

\* SpecThreaded: app.run_server(threaded=True), requests handled concurrently
ThreadedCallGraph(t) ==
    \E a \in ThreadedCounts : \E conf \in ThreadedConfs :
        Call(t, "update_graph", a[1], a[2], a[3], a[4], conf)

ThreadedCallPriors(t) ==
    \E a \in ThreadedCounts : Call(t, "update_priors", a[1], a[2], a[3], a[4], 0)

NextThreaded ==
    \E t \in Threads :
        \/ ThreadedCallGraph(t)
        \/ ThreadedCallPriors(t)
        \/ Step(t)
        \/ Return(t)
        \/ Respond(t)

SpecThreaded == Init /\ [][NextThreaded]_vars

\* SpecBrowser: one page, the user free to type any count into any box
BrowserType ==
    /\ \E box \in InputBoxes : \E v \in BrowserValues : TypeInput(box, v)
    /\ UNCHANGED folded

BrowserSelect == \E c \in conf_interval_values : SelectConf(c)

BrowserUpdatePriors == UpdatePriors(BrowserPriors) /\ UNCHANGED folded

NextBrowser ==
    \/ BrowserType
    \/ BrowserSelect
    \/ RunAnalysis
    \/ BrowserUpdatePriors

SpecBrowser == Init /\ [][NextBrowser]_vars

\* SpecSession: the page as loaded, the user entering observed counts >= 0
EnterObserved ==
    /\ \E box \in ObservedBoxes : \E v \in 0..MaxObserved : TypeInput(box, v)
    /\ UNCHANGED folded

SessionUpdatePriors ==
    /\ UpdatePriors(SessionPriors)
    /\ folded' = [wins |-> folded.wins + layout.observed_wins,
                  losses |-> folded.losses + layout.observed_losses]

NextSession ==
    \/ EnterObserved
    \/ BrowserSelect
    \/ RunAnalysis
    \/ SessionUpdatePriors

SpecSession == Init /\ [][NextSession]_vars

\* ================================================================ claims
\* thread t has run callback cb to its return
Done(t, cb) == pc[t] = "done" /\ request[t].callback = cb

\* the four counts of a request, of a response, of the page
PriorState(r) ==
    <<r.prior_wins, r.prior_losses, r.observed_wins, r.observed_losses>>

Alpha(r) == r.prior_wins + r.observed_wins
Beta(r) == r.prior_losses + r.observed_losses

HasNegative(r) ==
    r.prior_wins < 0 \/ r.prior_losses < 0 \/ r.observed_wins < 0 \/ r.observed_losses < 0

\* C1: update_priors returns priorWins + observedWins, priorLosses +
\* observedLosses, 0 and 0, for every four integers it is called with.
UpdateAdditivity ==
    \A t \in Threads :
        Done(t, "update_priors") =>
            /\ response[t].prior_wins = request[t].prior_wins + request[t].observed_wins
            /\ response[t].prior_losses =
                   request[t].prior_losses + request[t].observed_losses
            /\ response[t].observed_wins = 0
            /\ response[t].observed_losses = 0

\* C1 witness: update_priors(5, 5, 3, 2) has returned (8, 7, 0, 0)
UpdateAdditivityWitness ==
    /\ Done(1, "update_priors")
    /\ PriorState(request[1]) = <<5, 5, 3, 2>>
    /\ PriorState(response[1]) = <<8, 7, 0, 0>>

\* C2: update_priors returns the state it was given exactly when the observed
\* counts it was given are both zero; with a nonzero observed count the
\* returned state differs from the given one.
UpdateIdempotentOnlyAtZero ==
    \A t \in Threads :
        Done(t, "update_priors") =>
            ( (PriorState(response[t]) = PriorState(request[t]))
              <=> (request[t].observed_wins = 0 /\ request[t].observed_losses = 0) )

\* C2 witness: update_priors(2, 3, 0, 0) has returned (2, 3, 0, 0)
UpdateIdempotentWitness ==
    /\ Done(1, "update_priors")
    /\ PriorState(request[1]) = <<2, 3, 0, 0>>
    /\ PriorState(response[1]) = <<2, 3, 0, 0>>

\* C3: update_graph called with priorWins + observedWins <= 0 or priorLosses +
\* observedLosses <= 0 fails with InvalidDistributionError, and the shape
\* parameters it hands to the Beta distribution are always positive.
DegenerateRejected ==
    \A t \in Threads :
        /\ (Done(t, "update_graph") /\ (Alpha(request[t]) <= 0 \/ Beta(request[t]) <= 0))
               => response[t].raised = "InvalidDistributionError"
        /\ pc[t] \in {"l98", "l101", "l102", "l103", "l117", "l162"}
               => beta_argcheck(locals[Frame(t)].posterior_beta)

\* C5: a callback called with a negative count fails with InputValidationError.
NegativeCountsRejected ==
    \A t \in Threads :
        (pc[t] = "done" /\ HasNegative(request[t]))
            => response[t].raised = "InputValidationError"

\* C6: update_graph called with a confidence level outside {0.80, 0.90, 0.95,
\* 0.99} fails with InputValidationError.
ConfidenceOutsideSetRejected ==
    \A t \in Threads :
        (Done(t, "update_graph") /\ request[t].conf_interval \notin conf_interval_values)
            => response[t].raised = "InputValidationError"

\* the mass of the posterior below, and above, a point ppf returned
MassBelow(x) == x.q
MassAbove(x) == ONE - x.q

\* C7: for a confidence level c of the dropdown, the lower bound is the
\* quantile at (1 - c) / 2 and the upper bound the quantile at 1 - (1 - c) / 2
\* of the posterior Beta(alpha, beta): the mass below the lower bound equals
\* the mass above the upper bound, each (1 - c) / 2, and the lower level is
\* at most the upper.
EqualTailInterval ==
    \A t \in Threads :
        (Done(t, "update_graph") /\ request[t].conf_interval \in conf_interval_values) =>
            LET lb == response[t].lb_trace.x
                ub == response[t].ub_trace.x
                c == request[t].conf_interval
                posterior == stats_beta(Alpha(request[t]), Beta(request[t]))
            IN  /\ lb.dist = posterior /\ ub.dist = posterior
                /\ 2 * MassBelow(lb) = ONE - c
                /\ 2 * MassAbove(ub) = ONE - c
                /\ MassBelow(lb) = MassAbove(ub)
                /\ lb.q <= ub.q
                /\ beta_argcheck(posterior) => (~lb.nan /\ ~ub.nan)

\* C7 witness: update_graph(5, 5, 3, 2, 0.95) has returned the quantiles at
\* 0.025 and 0.975 of Beta(8, 7)
EqualTailWitness ==
    /\ Done(1, "update_graph")
    /\ PriorState(request[1]) = <<5, 5, 3, 2>>
    /\ request[1].conf_interval = 950
    /\ response[1].lb_trace.x = [dist |-> stats_beta(8, 7), q |-> 25, nan |-> FALSE]
    /\ response[1].ub_trace.x = [dist |-> stats_beta(8, 7), q |-> 975, nan |-> FALSE]

\* C9: the state update_priors returns has the alpha and beta of the state it
\* was given, so update_graph draws the same figure from either, at every
\* confidence level of the dropdown.
UpdatePreservesPosterior ==
    \A t \in Threads :
        Done(t, "update_priors") =>
            /\ Alpha(response[t]) = Alpha(request[t])
            /\ Beta(response[t]) = Beta(request[t])
            /\ \A c \in conf_interval_values :
                   update_graph(response[t].prior_wins, response[t].prior_losses,
                                response[t].observed_wins, response[t].observed_losses, c)
                     = update_graph(request[t].prior_wins, request[t].prior_losses,
                                    request[t].observed_wins, request[t].observed_losses, c)

\* C9 witness: update_priors has folded nonzero observed counts into the priors
UpdatePreservesPosteriorWitness ==
    /\ Done(1, "update_priors")
    /\ request[1].observed_wins > 0 /\ request[1].observed_losses > 0
    /\ response[1].prior_wins > request[1].prior_wins
    /\ Alpha(response[1]) = Alpha(request[1])

\* C8: whatever the interleaving of the threads, a callback returns what the
\* same call returns run alone, a function of its own request; two calls given
\* the same values return the same result.
NoCrossRequestInterference ==
    \A t \in Threads :
        pc[t] = "done" =>
            /\ response[t] = RunAlone(request[t])
            /\ \A u \in Threads :
                   (pc[u] = "done" /\ request[u] = request[t])
                       => response[u] = response[t]

\* C8 witness: two callbacks with different requests have run side by side
\* to their returns
ConcurrentCallsWitness ==
    /\ Done(1, "update_graph") /\ Done(2, "update_priors")
    /\ PriorState(request[1]) # PriorState(request[2])
    /\ response[1] = RunAlone(request[1])

\* C4: a Run Analysis step leaves the four counts of the page, and every
\* component but the graph, as they were.
AnalyzeLeavesPriorState ==
    [][RunAnalysis =>
          /\ PriorState(layout') = PriorState(layout)
          /\ layout' = [layout EXCEPT !.pdf_graph = layout'.pdf_graph]]_vars

\* C4 witness: the graph shows the analysis of the counts on the page, one of
\* them negative, at a confidence level other than the default
AnalyzeWitness ==
    /\ layout.pdf_graph.callback = "update_graph"
    /\ layout.prior_wins = 1 /\ layout.observed_wins = -1
    /\ layout.conf_interval_selector = 800
    /\ layout.pdf_graph =
           update_graph(layout.prior_wins, layout.prior_losses, layout.observed_wins,
                        layout.observed_losses, layout.conf_interval_selector)

\* C10: from the page as loaded, with only observed counts >= 0 entered, the
\* priors never decrease and stay >= 5, each is 5 plus the observed counts
\* folded in so far, alpha and beta stay positive, and no graph drawn holds a
\* nan.
SessionPriorsSafe ==
    /\ [](/\ layout.prior_wins >= DefaultPrior
          /\ layout.prior_losses >= DefaultPrior
          /\ layout.prior_wins = DefaultPrior + folded.wins
          /\ layout.prior_losses = DefaultPrior + folded.losses
          /\ Alpha(layout) > 0 /\ Beta(layout) > 0
          /\ layout.pdf_graph.callback = "update_graph" =>
                 /\ ~layout.pdf_graph.posterior_trace.nan
                 /\ ~layout.pdf_graph.lb_trace.x.nan
                 /\ ~layout.pdf_graph.ub_trace.x.nan)
    /\ [][/\ layout'.prior_wins >= layout.prior_wins
          /\ layout'.prior_losses >= layout.prior_losses]_vars

\* C10 witness: two updates have folded observed counts in and the graph
\* shows the analysis of the priors they left
SessionWitness ==
    /\ layout.prior_wins = 7 /\ layout.prior_losses = 6
    /\ folded = [wins |-> 2, losses |-> 1]
    /\ layout.observed_wins = 0 /\ layout.observed_losses = 0
    /\ layout.pdf_graph.callback = "update_graph"
    /\ layout.pdf_graph.posterior_trace.dist = stats_beta(7, 6)

====
